---- MODULE Spec2Model ----
(***************************************************************************)
(* Model of the form parser (parser/src/lib.rs): the location-attaching    *)
(* wrapper `located`, the nineteen form productions, the ordered           *)
(* alternation `parse_form` and the root driver `parse_root`.              *)
(*                                                                         *)
(* A token slice is always a suffix of the input, so a slice is the pair   *)
(* (toks, p): the input and the 1-based index of its first token; the      *)
(* slice is empty iff p = Len(toks) + 1.                                   *)
(*                                                                         *)
(* A parser is a term (a tuple whose head names the combinator) and        *)
(* Run(P, toks, p) applies it.  A call has four outcomes: "Ok" (remaining  *)
(* slice and output), "Err" (a TokenParseError returned to the caller),    *)
(* "Panic" (the thread aborts: index out of bounds, unwrap of None,        *)
(* unreachable!()) and "Hang" (a repetition whose parser succeeds without  *)
(* consuming never returns).                                               *)
(***************************************************************************)
EXTENDS Integers, Sequences, FiniteSets, TLC

VARIABLES tokens, rest, forms, pc, outcome, call

vars == <<tokens, rest, forms, pc, outcome, call>>

-----------------------------------------------------------------------------
(* Bounds of the model. *)

MaxLen == 5
MidLen == 3
ShortLen == 2

-----------------------------------------------------------------------------
(* Tokens.  A token is its kind and its text (a sequence of characters);   *)
(* the token at index i of the input is Located at TokRange(i).            *)

Tok(kind, text) == [kind |-> kind, text |-> text]

sym_a     == Tok("symbol", <<"a">>)
sym_ns_a  == Tok("symbol", <<"n", "/", "a">>)
kw_k      == Tok("keyword", <<":", "k">>)
kw_kk     == Tok("keyword", <<":", ":", "k">>)
char_c    == Tok("char_literal", <<"c">>)
str_s     == Tok("string_literal", <<"s">>)
int_1     == Tok("integer_literal", <<"1">>)
float_1   == Tok("float_literal", <<"1", ".", "5">>)
Punct(k)  == Tok(k, <<>>)

PunctKinds ==
  {"l_paren", "r_paren", "l_bracket", "r_bracket", "l_brace", "r_brace",
   "sharp", "hat", "at", "tilde", "tilde_at", "and", "quote", "syntax_quote",
   "sharp_underescore"}

AllTokens ==
  {sym_a, sym_ns_a, kw_k, kw_kk, char_c, str_s, int_1, float_1}
    \cup {Punct(k) : k \in PunctKinds}

RootTokens ==
  {Punct("sharp_underescore"), int_1, Punct("l_paren"), Punct("r_paren")}

MapTokens ==
  {int_1, Punct("l_brace"), Punct("r_brace"), Punct("sharp")}

FnTokens ==
  {Punct("sharp"), Punct("l_paren"), Punct("r_paren"), Punct("hat")}

PrefixTokens ==
  {Punct("sharp"), Punct("l_brace"), Punct("hat"), Punct("quote")}

SeqsUpTo(S, n) == UNION {[1..k -> S] : k \in 0..n}

Inputs ==
  SeqsUpTo(RootTokens, MaxLen) \cup SeqsUpTo(MapTokens, MaxLen)
    \cup SeqsUpTo(FnTokens, MaxLen) \cup SeqsUpTo(PrefixTokens, MidLen)
    \cup SeqsUpTo(AllTokens, ShortLen)

TokStart(i) == 2 * i
TokEnd(i)   == 2 * i + 1
TokRange(i) == <<TokStart(i), TokEnd(i)>>

IsEmpty(toks, p) == p > Len(toks)

-----------------------------------------------------------------------------
(* Results of a parser call. *)

Ok(r, out)  == [st |-> "Ok", rest |-> r, out |-> out, errors |-> <<>>]
Err(errors) == [st |-> "Err", rest |-> 0, out |-> <<>>, errors |-> errors]
Panic       == [st |-> "Panic", rest |-> 0, out |-> <<>>, errors |-> <<>>]
Hang        == [st |-> "Hang", rest |-> 0, out |-> <<>>, errors |-> <<>>]

IsOk(r)     == r.st = "Ok"
IsErr(r)    == r.st = "Err"
Aborts(r)   == r.st \in {"Panic", "Hang"}

-----------------------------------------------------------------------------
(* AST values and Located nodes. *)

None == <<>>
Some(x) == <<x>>

(* An AST value: its variant, the {ns, name} pair of a Symbol, Keyword,   *)
(* AtomDeref, Unquoted or UnquotedSplicing, the text of a literal, and    *)
(* the child nodes of a composite variant.                                 *)
Named(tag, ns, name) ==
  [tag |-> tag, ns |-> ns, name |-> name, text |-> <<>>, kids |-> <<>>]
Literal(tag, text) ==
  [tag |-> tag, ns |-> None, name |-> <<>>, text |-> text, kids |-> <<>>]
Branch(tag, kids) ==
  [tag |-> tag, ns |-> None, name |-> <<>>, text |-> <<>>, kids |-> kids]
Unreachable == Literal("unreachable", <<>>)

(* Located { range, value }.  `span` is a history field: the indices of    *)
(* the first and the last token the node consumed.                         *)
LocatedAt(from, to, value, span) ==
  [range |-> <<from, to>>, value |-> value, span |-> span]

-----------------------------------------------------------------------------
(* str::split('/') on a text. *)

RECURSIVE Split(_, _)
Split(text, sep) ==
  IF \A i \in 1..Len(text) : text[i] # sep
  THEN <<text>>
  ELSE LET i == CHOOSE j \in 1..Len(text) :
                  text[j] = sep /\ \A h \in 1..(j - 1) : text[h] # sep
       IN <<SubSeq(text, 1, i - 1)>> \o Split(SubSeq(text, i + 1, Len(text)), sep)

StartsWith(text, prefix) ==
  Len(text) >= Len(prefix) /\ SubSeq(text, 1, Len(prefix)) = prefix

-----------------------------------------------------------------------------
(* The closures the productions hand to map / map_res. *)

symbol_fn(symbol_str) ==
  LET splited == Split(symbol_str, "/") IN
  IF Len(splited) = 1
  THEN Named("Symbol", None, splited[1])
  ELSE IF Len(splited) = 2
  THEN Named("Symbol", Some(splited[1]), splited[2])
  ELSE Unreachable

keyword_fn(keyword_str) ==
  LET name == IF StartsWith(keyword_str, <<":", ":">>)
              THEN SubSeq(keyword_str, 3, Len(keyword_str))
              ELSE SubSeq(keyword_str, 2, Len(keyword_str))
      splited == Split(name, "/")
  IN IF Len(splited) = 1
     THEN Named("Keyword", None, splited[1])
     ELSE IF Len(splited) = 2
     THEN Named("Keyword", Some(splited[1]), splited[2])
     ELSE Unreachable

retag_fn(tag, sym_ast) ==
  IF sym_ast.value.tag = "Symbol"
  THEN Named(tag, sym_ast.value.ns, sym_ast.value.name)
  ELSE Unreachable

map_fn_unchecked(res) ==
  IF IsOk(res) THEN Ok(res.rest, Branch("Map", res.out)) ELSE res

map_fn(res) ==
  IF IsOk(res)
  THEN IF Len(res.out) % 2 # 0
       THEN Err(<<"Other">>)
       ELSE Ok(res.rest, Branch("Map", res.out))
  ELSE res

Apply(f, out) ==
  CASE f = "Symbol"           -> symbol_fn(out)
    [] f = "Keyword"          -> keyword_fn(out)
    [] f = "AtomDeref"        -> retag_fn("AtomDeref", out)
    [] f = "Unquoted"         -> retag_fn("Unquoted", out)
    [] f = "UnquotedSplicing" -> retag_fn("UnquotedSplicing", out)
    [] f = "And"              -> Literal("And", <<>>)
    [] f \in {"CharLiteral", "StringLiteral", "IntegerLiteral",
              "FloatLiteral", "RegexLiteral"} -> Literal(f, out)
    [] f \in {"List", "Vector", "AnonymousFn"} -> Branch(f, out)
    [] f = "Set"              -> Branch("Set", out[2])
    [] f \in {"Metadata", "Quoted", "SyntaxQuoted"} -> Branch(f, <<out>>)

ApplyRes(f, res) ==
  CASE f = "Map" -> map_fn(res)

-----------------------------------------------------------------------------
(* Parser terms. *)

Classifier(kind)   == <<"classifier", kind>>
Ref(name)          == <<"ref", name>>
Located(P)         == <<"located", P>>
Map(P, f)          == <<"map", P, f>>
MapRes(P, f)       == <<"map_res", P, f>>
Preceded(P1, P2)   == <<"preceded", P1, P2>>
Delimited(A, B, C) == <<"delimited", A, B, C>>
Tuple2(P1, P2)     == <<"tuple", P1, P2>>
Many0(P)           == <<"many0", P>>
Many0Count(P)      == <<"many0_count", P>>
Alt(Ps)            == <<"alt", Ps>>

l_paren        == Classifier("l_paren")
r_paren        == Classifier("r_paren")
l_bracket      == Classifier("l_bracket")
r_bracket      == Classifier("r_bracket")
l_brace        == Classifier("l_brace")
r_brace        == Classifier("r_brace")
sharp          == Classifier("sharp")
hat            == Classifier("hat")
at             == Classifier("at")
tilde          == Classifier("tilde")
tilde_at       == Classifier("tilde_at")
and            == Classifier("and")
quote          == Classifier("quote")
syntax_quote   == Classifier("syntax_quote")
sharp_underescore == Classifier("sharp_underescore")
symbol         == Classifier("symbol")
keyword        == Classifier("keyword")
char_literal   == Classifier("char_literal")
string_literal == Classifier("string_literal")
integer_literal == Classifier("integer_literal")
float_literal  == Classifier("float_literal")

-----------------------------------------------------------------------------
(* The productions. *)

parse_metadata == Located(Map(Preceded(hat, Ref("parse_form")), "Metadata"))

parse_symbol == Located(Map(symbol, "Symbol"))

parse_atom_deref == Located(Map(Preceded(at, parse_symbol), "AtomDeref"))

parse_unquoted_symbol == Located(Map(Preceded(tilde, parse_symbol), "Unquoted"))

parse_unquoted_splicing_symbol ==
  Located(Map(Preceded(tilde_at, parse_symbol), "UnquotedSplicing"))

parse_and == Located(Map(and, "And"))

parse_keyword == Located(Map(keyword, "Keyword"))

parse_char_literal == Located(Map(char_literal, "CharLiteral"))

parse_string_literal == Located(Map(string_literal, "StringLiteral"))

parse_integer_literal == Located(Map(integer_literal, "IntegerLiteral"))

parse_float_literal == Located(Map(float_literal, "FloatLiteral"))

parse_list ==
  Located(Map(Delimited(l_paren, Many0(Ref("parse_form")), r_paren), "List"))

parse_vector ==
  Located(Map(Delimited(l_bracket, Many0(Ref("parse_form")), r_bracket), "Vector"))

parse_map ==
  Located(MapRes(Delimited(l_brace, Many0(Ref("parse_form")), r_brace), "Map"))

parse_set ==
  Located(Map(Tuple2(sharp, Delimited(l_brace, Many0(Ref("parse_form")), r_brace)),
              "Set"))

parse_regex_literal == Located(Map(Preceded(sharp, string_literal), "RegexLiteral"))

parse_anonymous_fn_unprefixed ==
  Located(Map(Many0(parse_list), "AnonymousFn"))

parse_anonymous_fn == Located(Map(Preceded(sharp, Many0(parse_list)), "AnonymousFn"))

parse_quoted_form == Located(Map(Preceded(quote, Ref("parse_form")), "Quoted"))

parse_syntax_quoted_form ==
  Located(Map(Preceded(syntax_quote, Ref("parse_form")), "SyntaxQuoted"))

Productions ==
  <<parse_symbol, parse_keyword, parse_char_literal, parse_string_literal,
    parse_integer_literal, parse_float_literal, parse_list, parse_vector,
    parse_map, parse_set, parse_regex_literal, parse_anonymous_fn,
    parse_metadata, parse_and, parse_atom_deref, parse_quoted_form,
    parse_unquoted_symbol, parse_unquoted_splicing_symbol,
    parse_syntax_quoted_form>>

parse_form == Alt(Productions)

-----------------------------------------------------------------------------
(* The combinators.  Run(P, toks, p, memo) applies parser P to the slice   *)
(* of toks that starts at p.  parse_form is a pure function of the slice   *)
(* and every recursive use of it follows a consumed token, so its results  *)
(* on the shorter slices are taken from memo (see FormTable).              *)

RECURSIVE Run(_, _, _, _)
RECURSIVE many0(_, _, _, _)
RECURSIVE many0_count(_, _, _, _)
RECURSIVE alt(_, _, _, _)

(* memo holds the results of parse_form on the last Len(memo) slices of    *)
(* toks, the empty slice last.                                             *)
Lookup(toks, memo, p) == memo[p - (Len(toks) + 1 - Len(memo))]

classifier(kind, toks, p) ==
  IF IsEmpty(toks, p)
  THEN Err(<<"Eof">>)
  ELSE IF toks[p].kind = kind
  THEN Ok(p + 1, toks[p].text)
  ELSE Err(<<"Mismatch">>)

located_first_token(P, toks, p, memo) ==
  IF IsEmpty(toks, p)
  THEN Panic
  ELSE LET from == TokRange(p)
           r    == Run(P, toks, p, memo)
       IN IF ~IsOk(r)
          THEN r
          ELSE Ok(r.rest, LocatedAt(from[1], from[2], r.out, <<p, r.rest - 1>>))

(* let from = tokens[0].range: indexing an empty slice panics.             *)
(* let to = rest.get(0).unwrap_or(tokens.last().unwrap()).range;           *)
(* range: (from.0, to.1).                                                  *)
located(P, toks, p, memo) ==
  IF IsEmpty(toks, p)
  THEN Panic
  ELSE LET from == TokRange(p)
           r    == Run(P, toks, p, memo)
       IN IF ~IsOk(r)
          THEN r
          ELSE LET to == IF ~IsEmpty(toks, r.rest)
                         THEN TokRange(r.rest)
                         ELSE TokRange(Len(toks))
               IN Ok(r.rest, LocatedAt(from[1], to[2], r.out, <<p, r.rest - 1>>))

map(P, f, toks, p, memo) ==
  LET r == Run(P, toks, p, memo) IN
  IF ~IsOk(r)
  THEN r
  ELSE LET v == Apply(f, r.out)
       IN IF v.tag = "unreachable" THEN Panic ELSE Ok(r.rest, v)

map_res(P, f, toks, p, memo) ==
  LET r == Run(P, toks, p, memo) IN
  IF Aborts(r) THEN r ELSE ApplyRes(f, r)

preceded(P1, P2, toks, p, memo) ==
  LET r1 == Run(P1, toks, p, memo) IN
  IF ~IsOk(r1) THEN r1 ELSE Run(P2, toks, r1.rest, memo)

tuple(P1, P2, toks, p, memo) ==
  LET r1 == Run(P1, toks, p, memo) IN
  IF ~IsOk(r1)
  THEN r1
  ELSE LET r2 == Run(P2, toks, r1.rest, memo)
       IN IF ~IsOk(r2) THEN r2 ELSE Ok(r2.rest, <<r1.out, r2.out>>)

delimited(A, B, C, toks, p, memo) ==
  LET ra == Run(A, toks, p, memo) IN
  IF ~IsOk(ra)
  THEN ra
  ELSE LET rb == Run(B, toks, ra.rest, memo)
       IN IF ~IsOk(rb)
          THEN rb
          ELSE LET rc == Run(C, toks, rb.rest, memo)
               IN IF ~IsOk(rc) THEN rc ELSE Ok(rc.rest, rb.out)

many0(P, toks, p, memo) ==
  LET r == Run(P, toks, p, memo) IN
  IF Aborts(r)
  THEN r
  ELSE IF IsErr(r)
  THEN Ok(p, <<>>)
  ELSE IF r.rest = p
  THEN Hang
  ELSE LET more == many0(P, toks, r.rest, memo)
       IN IF ~IsOk(more) THEN more ELSE Ok(more.rest, <<r.out>> \o more.out)

many0_count(P, toks, p, memo) ==
  LET r == Run(P, toks, p, memo) IN
  IF Aborts(r)
  THEN r
  ELSE IF IsErr(r)
  THEN Ok(p, 0)
  ELSE IF r.rest = p
  THEN Hang
  ELSE LET more == many0_count(P, toks, r.rest, memo)
       IN IF ~IsOk(more) THEN more ELSE Ok(more.rest, 1 + more.out)

(* The alternatives are tried left to right at the same position p and    *)
(* the first result that is not an Err is returned; the halving only       *)
(* bounds the depth of the evaluation.                                     *)
alt(Ps, toks, p, memo) ==
  IF Len(Ps) = 1
  THEN Run(Ps[1], toks, p, memo)
  ELSE LET h == Len(Ps) \div 2
           r == alt(SubSeq(Ps, 1, h), toks, p, memo)
       IN IF ~IsErr(r)
          THEN r
          ELSE LET t == alt(SubSeq(Ps, h + 1, Len(Ps)), toks, p, memo)
               IN IF IsErr(t) THEN Err(r.errors \o t.errors) ELSE t

Run(P, toks, p, memo) ==
  CASE P[1] = "classifier"  -> classifier(P[2], toks, p)
    [] P[1] = "ref"         -> Lookup(toks, memo, p)
    [] P[1] = "located"     -> located(P[2], toks, p, memo)
    [] P[1] = "map"         -> map(P[2], P[3], toks, p, memo)
    [] P[1] = "map_res"     -> map_res(P[2], P[3], toks, p, memo)
    [] P[1] = "preceded"    -> preceded(P[2], P[3], toks, p, memo)
    [] P[1] = "delimited"   -> delimited(P[2], P[3], P[4], toks, p, memo)
    [] P[1] = "tuple"       -> tuple(P[2], P[3], toks, p, memo)
    [] P[1] = "many0"       -> many0(P[2], toks, p, memo)
    [] P[1] = "many0_count" -> many0_count(P[2], toks, p, memo)
    [] P[1] = "alt"         -> alt(P[2], toks, p, memo)

(* The results of parse_form on every slice of toks, shortest first.       *)
RECURSIVE FormTable(_, _)
FormTable(toks, memo) ==
  IF Len(memo) = Len(toks) + 1
  THEN memo
  ELSE FormTable(toks,
         <<Run(parse_form, toks, Len(toks) + 1 - Len(memo), memo)>> \o memo)

(* A call of production P on the slice of toks that starts at p.           *)
Parse(P, toks, p) == Run(P, toks, p, FormTable(toks, <<>>))

-----------------------------------------------------------------------------
(* parse_root: one iteration of `while !rest.is_empty()`.                  *)

RECURSIVE discard(_, _, _)

discard_once(toks, p, n) ==
  IF n = 0 \/ IsEmpty(toks, p)
  THEN Ok(p, <<>>)
  ELSE LET r == Parse(parse_form, toks, p)
       IN IF ~IsOk(r) THEN r ELSE Ok(r.rest, <<>>)

discard(toks, p, n) ==
  IF n = 0
  THEN Ok(p, <<>>)
  ELSE IF ~IsEmpty(toks, p)
  THEN LET r == Parse(parse_form, toks, p)
       IN IF ~IsOk(r) THEN r ELSE discard(toks, r.rest, n - 1)
  ELSE discard(toks, p, n - 1)

root_iteration(toks, p) ==
  LET c == Parse(Many0Count(sharp_underescore), toks, p) IN
  IF ~IsOk(c)
  THEN c
  ELSE LET d == discard(toks, c.rest, c.out)
       IN IF ~IsOk(d) THEN d ELSE Parse(parse_form, toks, d.rest)

-----------------------------------------------------------------------------
(* The state machine.  A caller hands an input either to parse_root, which *)
(* then runs one loop iteration at a time, or to one production directly;  *)
(* `call` records the production called and what it returned.              *)

NoCall == [fn |-> "none", res |-> Err(<<>>)]

Init ==
  /\ tokens = <<>>
  /\ rest = 1
  /\ forms = <<>>
  /\ pc = "idle"
  /\ outcome = "none"
  /\ call = NoCall

(* let mut rest = tokens; let mut forms = Vec::new(); *)
RootEnter ==
  /\ pc = "idle"
  /\ \E toks \in Inputs : tokens' = toks
  /\ rest' = 1
  /\ forms' = <<>>
  /\ pc' = "loop"
  /\ UNCHANGED <<outcome, call>>

(* One iteration of the loop; `?` returns the failure to the caller. *)
RootIterate ==
  /\ pc = "loop"
  /\ ~IsEmpty(tokens, rest)
  /\ LET r == root_iteration(tokens, rest)
     IN /\ rest' = IF IsOk(r) THEN r.rest ELSE rest
        /\ forms' = IF IsOk(r) THEN Append(forms, r.out) ELSE forms
        /\ pc' = IF IsOk(r) THEN "loop" ELSE "done"
        /\ outcome' = IF IsOk(r) THEN outcome ELSE r.st
  /\ UNCHANGED <<tokens, call>>

(* Ok((rest, AST::Root(forms))) *)
RootReturn ==
  /\ pc = "loop"
  /\ IsEmpty(tokens, rest)
  /\ pc' = "done"
  /\ outcome' = "Ok"
  /\ UNCHANGED <<tokens, rest, forms, call>>

Callable ==
  [parse_form |-> parse_form, parse_map |-> parse_map,
   parse_anonymous_fn |-> parse_anonymous_fn]

CallProduction ==
  /\ pc = "idle"
  /\ \E toks \in Inputs, fn \in DOMAIN Callable :
       /\ tokens' = toks
       /\ call' = [fn |-> fn, res |-> Parse(Callable[fn], toks, 1)]
  /\ pc' = "called"
  /\ UNCHANGED <<rest, forms, outcome>>

Next == RootEnter \/ RootIterate \/ RootReturn \/ CallProduction

Spec == Init /\ [][Next]_vars

-----
(* Notions the properties below are stated with. *)

IsMarker(toks, p) == ~IsEmpty(toks, p) /\ toks[p].kind = "sharp_underescore"

(* The number of consecutive comment-out markers at p. *)
RECURSIVE LeadingMarkers(_, _)
LeadingMarkers(toks, p) ==
  IF IsMarker(toks, p) THEN 1 + LeadingMarkers(toks, p + 1) ELSE 0

(* The maximal run of well-formed forms (of production P) that starts at   *)
(* p: the successful results, in order.                                    *)
RECURSIVE RunOf(_, _, _)
RunOf(P, toks, p) ==
  IF IsEmpty(toks, p)
  THEN <<>>
  ELSE LET r == Parse(P, toks, p)
       IN IF IsOk(r) THEN <<r>> \o RunOf(P, toks, r.rest) ELSE <<>>

FormRun(toks, p) == RunOf(parse_form, toks, p)
ListRun(toks, p) == RunOf(parse_list, toks, p)

RunEnd(run, p) == IF run = <<>> THEN p ELSE run[Len(run)].rest

Outs(run) == [i \in 1..Len(run) |-> run[i].out]

(* The Located nodes the program has returned in this state. *)
Returned ==
  {forms[i] : i \in 1..Len(forms)}
    \cup (IF call.fn # "none" /\ IsOk(call.res) THEN {call.res.out} ELSE {})

Kids(node) == node.value.kids

RECURSIVE Height(_)
Height(node) ==
  IF Kids(node) = <<>>
  THEN 1
  ELSE LET hs == {Height(Kids(node)[i]) : i \in 1..Len(Kids(node))}
       IN 1 + CHOOSE h \in hs : \A g \in hs : g <= h

-----------------------------------------------------------------------------
(* C1: for every input that is a concatenation of well-formed top-level    *)
(* forms, each optionally preceded by comment-out markers, parse_root      *)
(* returns Ok with nothing remaining and as many children as there are     *)
(* forms not discarded by a marker.                                        *)

(* The reader's view of the input: every marker discards one later form.   *)
RECURSIVE Scan(_, _, _, _)
Scan(toks, p, pending, kept) ==
  IF IsEmpty(toks, p)
  THEN [valid |-> TRUE, kept |-> kept]
  ELSE IF IsMarker(toks, p)
  THEN Scan(toks, p + 1, pending + 1, kept)
  ELSE LET r == Parse(parse_form, toks, p)
       IN IF ~IsOk(r)
          THEN [valid |-> FALSE, kept |-> kept]
          ELSE IF pending > 0
          THEN Scan(toks, r.rest, pending - 1, kept)
          ELSE Scan(toks, r.rest, 0, kept + 1)

C1_ValidInput(toks) ==
  /\ ~(toks # <<>> /\ IsMarker(toks, Len(toks)))
  /\ Scan(toks, 1, 0, 0).valid

C1_RootCountsForms ==
  (pc = "done" /\ C1_ValidInput(tokens))
    => /\ outcome = "Ok"
       /\ IsEmpty(tokens, rest)
       /\ Len(forms) = Scan(tokens, 1, 0, 0).kept

-----------------------------------------------------------------------------
(* C2: range tightness: every returned node, at any depth, starts where    *)
(* the first token it consumed starts and ends where the last token it     *)
(* consumed ends, so a node never overlaps its next sibling.               *)

RECURSIVE Tight(_)
Tight(node) ==
  /\ node.range = <<TokStart(node.span[1]), TokEnd(node.span[2])>>
  /\ \A i \in 1..Len(Kids(node)) : Tight(Kids(node)[i])

C2_RangesTight ==
  /\ \A node \in Returned : Tight(node)
  /\ \A i \in 1..(Len(forms) - 1) : forms[i].range[2] < forms[i + 1].range[1]

-----------------------------------------------------------------------------
(* C3: when what remains at the head of the loop is one or more            *)
(* comment-out markers followed by no more forms than markers, and nothing *)
(* else, parse_root does not fail and the accumulated forms are unchanged. *)

C3_TrailingAt(toks, p) ==
  LET k   == LeadingMarkers(toks, p)
      run == FormRun(toks, p + k)
  IN /\ k >= 1
     /\ Len(run) <= k
     /\ IsEmpty(toks, RunEnd(run, p + k))

C3_TrailingMarkersTolerated ==
  [][(pc = "loop" /\ C3_TrailingAt(tokens, rest))
       => (outcome' \in {"none", "Ok"} /\ forms' = forms)]_vars

-----------------------------------------------------------------------------
(* C4: k >= 1 markers at the head of the loop followed by at least k + 1   *)
(* well-formed forms: the iteration discards the next k forms and appends  *)
(* the (k+1)-th, with the value and range it has when parsed at its own    *)
(* position; when the forms run to the end of the input, parse_root        *)
(* returns exactly the forms after the k-th.                               *)

C4_StackedAt(toks, p) ==
  LET k == LeadingMarkers(toks, p)
  IN k >= 1 /\ Len(FormRun(toks, p + k)) >= k + 1

C4_Step ==
  (pc = "loop" /\ C4_StackedAt(tokens, rest))
    => LET k   == LeadingMarkers(tokens, rest)
           run == FormRun(tokens, rest + k)
       IN /\ pc' = "loop"
          /\ forms' = Append(forms, run[k + 1].out)
          /\ rest' = run[k + 1].rest

C4_Result ==
  (pc = "done" /\ C4_StackedAt(tokens, 1))
    => LET k   == LeadingMarkers(tokens, 1)
           run == FormRun(tokens, 1 + k)
       IN IsEmpty(tokens, RunEnd(run, 1 + k))
            => /\ outcome = "Ok"
               /\ forms = SubSeq(Outs(run), k + 1, Len(run))

-----------------------------------------------------------------------------
(* C5: map arity.  For a brace-delimited body of n well-formed forms,      *)
(* parse_map returns a Map of n children when n is even and the error      *)
(* Other when n is odd; in the odd case parse_form and parse_root fail     *)
(* too, and no returned tree holds a Map with an odd number of children.   *)

C5_Body(toks) == FormRun(toks, 2)

C5_BraceDelimited(toks) ==
  /\ Len(toks) >= 2
  /\ toks[1].kind = "l_brace"
  /\ LET e == RunEnd(C5_Body(toks), 2)
     IN ~IsEmpty(toks, e) /\ toks[e].kind = "r_brace"

RECURSIVE NoOddMap(_)
NoOddMap(node) ==
  /\ node.value.tag = "Map" => Len(Kids(node)) % 2 = 0
  /\ \A i \in 1..Len(Kids(node)) : NoOddMap(Kids(node)[i])

C5_MapArity ==
  /\ \A node \in Returned : NoOddMap(node)
  /\ C5_BraceDelimited(tokens)
       => LET body == C5_Body(tokens)
              n    == Len(body)
          IN IF n % 2 = 0
             THEN call.fn = "parse_map"
                    => /\ IsOk(call.res)
                       /\ call.res.rest = RunEnd(body, 2) + 1
                       /\ call.res.out.value.tag = "Map"
                       /\ Kids(call.res.out) = Outs(body)
             ELSE /\ call.fn = "parse_map"
                    => IsErr(call.res) /\ call.res.errors = <<"Other">>
                  /\ call.fn = "parse_form" => IsErr(call.res)
                  /\ pc = "done" => outcome = "Err"

C5_Witness ==
  /\ call.fn = "parse_map"
  /\ C5_BraceDelimited(tokens)
  /\ Len(C5_Body(tokens)) = 3
  /\ IsErr(call.res)

-----------------------------------------------------------------------------
(* C6: range nesting.  Every node of a returned tree has start <= end and  *)
(* the range of every child lies within the range of its parent.           *)

RECURSIVE WellNested(_)
WellNested(node) ==
  /\ node.range[1] <= node.range[2]
  /\ \A i \in 1..Len(Kids(node)) :
       /\ node.range[1] <= Kids(node)[i].range[1]
       /\ Kids(node)[i].range[2] <= node.range[2]
       /\ WellNested(Kids(node)[i])

C6_RangesNest == \A node \in Returned : WellNested(node)

C6_Witness ==
  /\ call.fn = "parse_form"
  /\ IsOk(call.res)
  /\ Height(call.res.out) >= 3
  /\ ~IsEmpty(tokens, call.res.rest)

-----------------------------------------------------------------------------
(* C7: stream exhaustion is a structured failure.  On an empty slice, on   *)
(* a lone prefix marker and on an opening delimiter followed by atoms to   *)
(* the end of the input, parse_form returns an Err; parse_root on such a   *)
(* non-empty input returns an Err.                                         *)

PrefixKinds == {"hat", "quote", "syntax_quote", "at", "tilde", "tilde_at"}
OpenKinds == {"l_paren", "l_bracket", "l_brace"}
AtomKinds ==
  {"symbol", "keyword", "char_literal", "string_literal", "integer_literal",
   "float_literal"}

C7_NeedsMore(toks) ==
  \/ toks = <<>>
  \/ Len(toks) = 1 /\ toks[1].kind \in PrefixKinds
  \/ /\ Len(toks) >= 1
     /\ toks[1].kind \in OpenKinds
     /\ \A i \in 2..Len(toks) : toks[i].kind \in AtomKinds

C7_ExhaustionIsErr ==
  C7_NeedsMore(tokens)
    => /\ call.fn = "parse_form" => IsErr(call.res)
       /\ (pc = "done" /\ tokens # <<>>) => outcome = "Err"

-----------------------------------------------------------------------------
(* C8: on a non-empty slice parse_form returns exactly the result of the   *)
(* first of the nineteen productions that succeeds at that position, and   *)
(* it fails only when all nineteen fail.                                   *)

C8_OrderedAlternation ==
  (call.fn = "parse_form" /\ tokens # <<>>)
    => LET rs == [i \in 1..Len(Productions) |-> Parse(Productions[i], tokens, 1)]
           ok == {i \in 1..Len(Productions) : IsOk(rs[i])}
       IN /\ ok # {}
               => LET first == CHOOSE i \in ok : \A j \in ok : i <= j
                  IN /\ IsOk(call.res)
                     /\ call.res.rest = rs[first].rest
                     /\ call.res.out = rs[first].out
          /\ IsErr(call.res) <=> \A i \in 1..Len(Productions) : IsErr(rs[i])

-----------------------------------------------------------------------------
(* C9: parse_anonymous_fn on '#' followed by the maximal run of n lists    *)
(* returns AnonymousFn of exactly those lists and stops right after the    *)
(* n-th; for n = 0 this is required when the '#' is followed by a token    *)
(* that starts no list.                                                    *)

C9_AnonymousFnRepetition ==
  (call.fn = "parse_anonymous_fn" /\ tokens # <<>> /\ tokens[1].kind = "sharp")
    => LET run == ListRun(tokens, 2)
       IN (Len(run) >= 1 \/ (~IsEmpty(tokens, 2) /\ tokens[2].kind # "l_paren"))
            => /\ IsOk(call.res)
               /\ call.res.out.value.tag = "AnonymousFn"
               /\ Kids(call.res.out) = Outs(run)
               /\ call.res.rest = RunEnd(run, 2)

-----------------------------------------------------------------------------
(* C10: progress and termination.  A successful parse_form, and each of    *)
(* the nineteen productions on success, consumes at least one token; no    *)
(* repetition is stuck on a parser that consumes nothing, so every call    *)
(* returns or aborts; and every iteration of the root loop that does not   *)
(* fail moves `rest` forward, within the input.  The number of remaining   *)
(* tokens is then a variant of the loop: parse_root ends, with Ok or with  *)
(* a failure, after at most Len(tokens) iterations.                        *)

C10_Progress ==
  /\ outcome \in {"none", "Ok", "Err", "Panic"}
  /\ call.res.st \in {"Ok", "Err", "Panic"}
  /\ (call.fn # "none" /\ IsOk(call.res)) => call.res.rest > 1
  /\ call.fn = "parse_form"
       => \A i \in 1..Len(Productions) :
            LET r == Parse(Productions[i], tokens, 1)
            IN /\ r.st \in {"Ok", "Err", "Panic"}
               /\ IsOk(r) => r.rest > 1
  /\ pc \in {"loop", "done"}
       => /\ rest \in 1..(Len(tokens) + 1)
          /\ Len(forms) <= rest - 1
  /\ (pc = "loop" /\ ~IsEmpty(tokens, rest))
       => root_iteration(tokens, rest).st \in {"Ok", "Err", "Panic"}
  /\ (pc = "done" /\ outcome = "Ok") => IsEmpty(tokens, rest)

C10_Shrinks ==
  pc = "loop"
    => /\ pc' \in {"loop", "done"}
       /\ pc' = "loop" => rest' > rest

C10_ProgressAndTermination == []C10_Progress /\ [][C10_Shrinks]_vars

C10_Witness ==
  /\ pc = "done"
  /\ outcome = "Ok"
  /\ Len(forms) >= 2
  /\ \E i \in 1..Len(forms) :
       forms[i].value.tag = "AnonymousFn" /\ Kids(forms[i]) = <<>>

====
